---- MODULE Spec2Model ----
(***************************************************************************)
(* Pedster: a content pipeline of source adapters (ingestors), transform   *)
(* adapters (processors) and sink adapters (outputs).                      *)
(*                                                                         *)
(* Eight specifications share this module:                                 *)
(*   SpecMR      MapReduceProcessor.process (fan-out / fan-in)             *)
(*   SpecProc    BaseProcessor wrappers and LLMProcessor.process           *)
(*   SpecIngest  RSSIngestor.ingest, called repeatedly against its durable *)
(*               catalog of feeds and articles                             *)
(*   SpecMsg     IMessageOutput.output (truncate, split, send)             *)
(*   SpecVault   ObsidianOutput.output, called repeatedly on one vault     *)
(*   SpecCLI     the command line's main() and CLIIngestor.ingest          *)
(*   SpecPipe    transform results handed to the vault sink (assets.py)    *)
(*   SpecMsgIn   IMessageIngestor.ingest, called repeatedly in one process *)
(* Strings built by the code (error messages, the combined document) are   *)
(* modelled as sequences of their parts.                                   *)
(***************************************************************************)
EXTENDS Integers, Sequences, FiniteSets, TLC

VARIABLES
    \* ---- MapReduceProcessor.process ----
    mr_cfg,        \* config_obj: [parallel, combine_results]
    mr_input,      \* the record the caller passed to process()
    mr_phase,      \* position of process(): "idle", "running", "draining", "done"
    mr_child,      \* per child: "queued", "running", "finished", "collected"
    mr_future,     \* per child: the envelope its future holds (NoEnvelope until finished)
    mr_raised,     \* per child: its process() raised
    mr_next,       \* sequential mode: index of the next child to run
    mr_results,    \* map_reduce_result.results
    mr_timedOut,   \* as_completed raised TimeoutError
    mr_outcome,    \* "none", "returned", "raised"
    mr_ret,        \* the envelope process() returned
    mr_heap,       \* the record objects: the caller's, data_copy, one per child
    mr_ref         \* per child: the record object its envelope wraps

VARIABLES
    \* ---- one processor called directly or through its op / asset wrapper ----
    pr_proc,       \* the LLMProcessor: name, input_type, output_type
    pr_retry,      \* config_obj.retry_count
    pr_data,       \* the record presented
    pr_via,        \* "process", "op" or "asset"
    pr_pc,         \* "idle", "attempt", "done"
    pr_attempt,    \* loop variable of _call_openrouter
    pr_calls,      \* completion requests sent (requests.post)
    pr_sleeps,     \* the delays slept between attempts, in units of retry_delay
    pr_env,        \* the envelope handed back (NoEnvelope if none)
    pr_out         \* "none", "envelope", "no envelope" (asset wrapper skipped the record)

VARIABLES
    \* ---- source adapters and their durable catalogs ----
    in_adapter,    \* which adapter this catalog belongs to: "rss"
    in_world,      \* what the run's sources are like: "health" or "content"
    in_pc,         \* "idle" or "feeds" (inside ingest(), at feed_urls[in_i])
    in_i,          \* index into feed_urls of the feed handled next
    in_calls,      \* ingest() calls begun so far; also the clock of last_checked
    in_results,    \* the results list of the current (or last) call: item keys
    in_outcome,    \* how the last call ended: "none", "returned", "raised"
    in_surfaced,   \* keys returned by earlier calls
    in_seen,       \* keys the source has presented in the polls so far
    in_repeat,     \* the latest poll presented only keys that earlier polls had presented
    in_fetched,    \* sources fetched during the current (or last) call
    in_polled,     \* the latest poll of the current call: [feed, input]
    rss_feed,      \* table feeds: row per url
    rss_articles,  \* table articles, in insertion order: [guid, feed_id, processed]
    rss_fetchErrs, \* per feed: consecutive polls whose fetch failed on every attempt
    rss_warnings   \* per feed: "no entries for N consecutive checks" warnings logged

VARIABLES
    \* ---- the messaging sink (IMessageOutput.output) ----
    im_cfg,        \* config_obj: max_length, truncate_long_messages, split_long_messages
    im_content,    \* the content of the record to send, a sequence of characters
    im_pc,         \* "idle", "split", "send", "done"
    im_message,    \* what _format_message returned
    im_remaining,  \* loop variable of the splitting loop
    im_chunks,     \* chunks
    im_ci,         \* index of the chunk being sent
    im_ri,         \* index of the recipient sent to next
    im_sent,       \* the _send_imessage calls made so far: [to, text]
    im_success,    \* success
    im_anyFailed,  \* some _send_imessage call returned False
    im_lastOk,     \* the latest _send_imessage call returned True
    im_ret         \* what output() returned: "none", TRUE or FALSE

VARIABLES
    \* ---- the vault sink (ObsidianOutput.output) ----
    ob_cfg,        \* config_obj: append, prepend, overwrite, add_frontmatter
    ob_files,      \* the vault folder: file name -> text (NoFile where there is none)
    ob_clock,      \* datetime.now(), in whole seconds
    ob_calls,      \* output() calls made so far
    ob_last,       \* the latest call: its target file, the text it formatted, the
                   \* policy it applied
    ob_ret         \* what the latest output() returned: "none", TRUE or FALSE

VARIABLES
    \* ---- the command line (main) and the stdin adapter (CLIIngestor) ----
    cli_via,       \* "main": the process subcommand or bare invocation;
                   \* "ingest": CLIIngestor.ingest called on a configured adapter
    cli_command,   \* parsed_args.command: "process" or None
    cli_adapter,   \* the CLIIngestor: source_name, content_type, trim_whitespace, max_size
    cli_stdin,     \* sys.stdin: [isatty, text]
    cli_pc,        \* "start", "ingested", "done"
    cli_ret,       \* what ingest() returned, a list of records
    cli_stderr,    \* lines printed to standard error
    cli_stdout,    \* lines printed to standard output
    cli_exit,      \* exit status: "running", 0 or 1
    cli_processed  \* the records handed to processor.process

VARIABLES
    \* ---- the wired pipeline: transform results handed to the vault sink ----
    pl_via,        \* "model_to_obsidian" (assets.py) or "asset" (BaseOutput.get_asset)
    pl_results,    \* model_results: the envelopes the transform step produced
    pl_i,          \* index of the envelope handled next
    pl_pc,         \* "loop", "done"
    pl_outputs,    \* the envelopes output() was invoked on
    pl_written,    \* the envelopes whose content output() wrote to the vault
    pl_ret         \* the list of booleans built so far

VARIABLES
    \* ---- IMessageIngestor.ingest, called repeatedly in one process ----
    mi_pc,         \* "idle" or "batch" (inside the loop over new_messages)
    mi_batch,      \* new_messages of the current call: message ids
    mi_k,          \* index into mi_batch of the message handled next
    mi_calls,      \* ingest() calls begun so far
    mi_processed,  \* self.processed_message_ids
    mi_threads,    \* table message_threads: committed thread ids
    mi_catalog,    \* table messages: committed message ids
    mi_pending,    \* message ids added to the session and not committed
    mi_results,    \* results of the current call
    mi_returned    \* message ids in the list returned by some call

mr_vars == <<mr_cfg, mr_input, mr_phase, mr_child, mr_future, mr_raised,
             mr_next, mr_results, mr_timedOut, mr_outcome, mr_ret, mr_heap, mr_ref>>

pr_vars == <<pr_proc, pr_retry, pr_data, pr_via, pr_pc, pr_attempt, pr_calls,
             pr_sleeps, pr_env, pr_out>>

call_vars == <<in_adapter, in_world, in_pc, in_i, in_calls, in_results, in_outcome,
               in_surfaced, in_seen, in_repeat, in_fetched, in_polled>>

im_vars == <<im_cfg, im_content, im_pc, im_message, im_remaining, im_chunks,
             im_ci, im_ri, im_sent, im_success, im_anyFailed, im_lastOk, im_ret>>

ob_vars == <<ob_cfg, ob_files, ob_clock, ob_calls, ob_last, ob_ret>>

cli_vars == <<cli_via, cli_command, cli_adapter, cli_stdin, cli_pc, cli_ret,
              cli_stderr, cli_stdout, cli_exit, cli_processed>>

pl_vars == <<pl_via, pl_results, pl_i, pl_pc, pl_outputs, pl_written, pl_ret>>

mi_vars == <<mi_pc, mi_batch, mi_k, mi_calls, mi_processed, mi_threads, mi_catalog,
             mi_pending, mi_results, mi_returned>>

rss_vars == <<rss_feed, rss_articles, rss_fetchErrs, rss_warnings>>

in_vars == <<call_vars, rss_vars>>

vars == <<mr_vars, pr_vars, in_vars, im_vars, ob_vars, cli_vars, pl_vars, mi_vars>>

\* what the actions of one component leave alone
mr_others == <<pr_vars, in_vars, im_vars, ob_vars, cli_vars, pl_vars, mi_vars>>
pr_others == <<mr_vars, in_vars, im_vars, ob_vars, cli_vars, pl_vars, mi_vars>>
in_others == <<mr_vars, pr_vars, im_vars, ob_vars, cli_vars, pl_vars, mi_vars>>
im_others == <<mr_vars, pr_vars, in_vars, ob_vars, cli_vars, pl_vars, mi_vars>>
ob_others == <<mr_vars, pr_vars, in_vars, im_vars, cli_vars, pl_vars, mi_vars>>
cli_others == <<mr_vars, pr_vars, in_vars, im_vars, ob_vars, pl_vars, mi_vars>>
pl_others == <<mr_vars, pr_vars, in_vars, im_vars, ob_vars, cli_vars, mi_vars>>
mi_others == <<mr_vars, pr_vars, in_vars, im_vars, ob_vars, cli_vars, pl_vars>>

(***************************************************************************)
(* Bounds                                                                  *)
(***************************************************************************)
NumChildren == 3      \* children held by the fan-out processor
MaxWorkers == 2       \* config max_workers of the model's pool
MaxRetry == 3         \* largest configured retry_count
MaxCalls == 6         \* ingest() calls on one catalog, sources failing or empty
MaxContentCalls == 3  \* ingest() calls on one catalog, sources with several entries
max_articles_per_feed == 2   \* config max_articles_per_feed of the model
MaxMsgLen == 4        \* longest record content handed to the messaging sink
NumRecipients == 2    \* config recipients of the messaging sink
MaxChunks == 14       \* chunks the splitting loop may append
MaxOutputs == 3       \* output() calls on one vault
MaxClock == 2         \* seconds the wall clock runs through
MaxStdinLen == 4      \* longest text piped to standard input
MaxRecords == 3       \* envelopes the transform step hands on
NumMessages == 3      \* messages in the chat history
MaxIngests == 3       \* IMessageIngestor.ingest calls in one process

(***************************************************************************)
(* Program constants                                                       *)
(***************************************************************************)
MuteThreshold == 5        \* error_count >= 5 mutes the feed
EmptyWarnThreshold == 5   \* no_entries_count > 5 logs the warning
FetchAttempts == 3        \* range(3) in _get_feed_entries
TruncateReserve == 20     \* content[:max_length - 20]
ReadAll == -1             \* max_size None: read() to the end of the input

(***************************************************************************)
(* Record model (utils/models.py)                                          *)
(***************************************************************************)
None == "None"
NoneContent == <<"None">>
NoError == <<>>

ContentType == {"text", "audio", "markdown"}

\* PipelineData: id, content, content_type, metadata, metrics.call_count
PipelineData(id, content, content_type) ==
    [id |-> id, content |-> content, content_type |-> content_type,
     metadata |-> [processor |-> None, model |-> None],
     call_count |-> 1]

\* ProcessorResult: data, success, error_message, metrics.call_count
ProcessorResult(data, success, error_message) ==
    [data |-> data, success |-> success, error_message |-> error_message,
     call_count |-> 1]

NoEnvelope == [data |-> PipelineData("None", NoneContent, None),
               success |-> FALSE, error_message |-> <<"no envelope">>,
               call_count |-> 0]

\* track_metrics on a function returning a ProcessorResult
track_metrics(result) ==
    [result EXCEPT !.call_count = @ + 1, !.data.call_count = @ + 1]

(***************************************************************************)
(* BaseProcessor                                                           *)
(***************************************************************************)
BaseProcessor(name, input_type, output_type) ==
    [name |-> name, input_type |-> input_type, output_type |-> output_type]

can_process(self, data) == data.content_type \in self.input_type

create_result(self, data, content, content_type, success, error_message) ==
    LET new_data == [data EXCEPT
            !.content = IF content # NoneContent THEN content ELSE @,
            !.content_type = IF content_type # None THEN content_type
                             ELSE self.output_type]
    IN track_metrics(ProcessorResult(new_data, success, error_message))

(***************************************************************************)
(* MapReduceProcessor                                                      *)
(***************************************************************************)
ProcNames == <<"p1", "p2", "p3", "p4", "p5">>
Children == 1..NumChildren
\* self.processors: LLM-style children accepting and producing text
processors == [i \in Children |-> BaseProcessor(ProcNames[i], {"text"}, "text")]
MapReduce == BaseProcessor("mr", {"text"}, "text")

Outcomes == {"ok", "fail", "raise"}

\* processor.process(data) for a child that returns: a success envelope with
\* new content and the model recorded in metadata, or its own failure envelope
ChildProcess(p, data, outcome) ==
    IF outcome = "ok"
    THEN track_metrics(create_result(p,
             [data EXCEPT !.metadata.model = "model"],
             <<"out", p.name>>, None, TRUE, NoError))
    ELSE track_metrics(create_result(p, data, NoneContent, None, FALSE,
             <<"LLM error">>))

\* _process_with_processor: the except branch turns a raise into an envelope
NoCatch_process_with_processor(p, data, outcome) ==
    IF outcome = "raise"
    THEN [name |-> p.name, result |-> NoEnvelope, escaped |-> TRUE]
    ELSE [name |-> p.name, result |-> ChildProcess(p, data, outcome),
          escaped |-> FALSE]

_process_with_processor(p, data, outcome) ==
    IF outcome = "raise"
    THEN [name |-> p.name,
          result |-> create_result(p, data, NoneContent, None, FALSE,
                         <<"Error in ", p.name, ": ", "exc">>),
          escaped |-> FALSE]
    ELSE [name |-> p.name, result |-> ChildProcess(p, data, outcome),
          escaped |-> FALSE]

Untagged(result, processor_name) == result

\* result.data.metadata["processor"] = processor_name
Tagged(result, processor_name) ==
    [result EXCEPT !.data.metadata.processor = processor_name]

RECURSIVE CombineMarkdown(_)
\* markdown format, per result: a header, the content, the latency line and
\* a separator
CombineMarkdown(results) ==
    IF results = <<>> THEN <<>>
    ELSE LET r == Head(results)
             header == IF r.data.metadata.model # None
                       THEN <<"## ", r.data.metadata.processor, " (",
                              r.data.metadata.model, ")">>
                       ELSE <<"## ", r.data.metadata.processor>>
         IN header \o <<"content">> \o r.data.content \o <<"time", "---">>
            \o CombineMarkdown(Tail(results))

RECURSIVE CombineText(_)
\* any other format: "\n\n".join of the contents
CombineText(results) ==
    IF results = <<>> THEN <<>>
    ELSE IF Len(results) = 1 THEN Head(results).data.content
    ELSE Head(results).data.content \o <<"\n\n">> \o CombineText(Tail(results))

_combine_results(output_format, results) ==
    IF output_format = "markdown"
    THEN <<"# Combined Results">> \o CombineMarkdown(results)
    ELSE CombineText(results)

AlwaysFirst(results) == IF results = <<>> THEN 0 ELSE 1

\* lines 185-192: the index of the first successful result, 0 for none
FirstSuccess(results) ==
    LET idx == {i \in 1..Len(results) : results[i].success}
    IN IF idx = {} THEN 0 ELSE CHOOSE i \in idx : \A j \in idx : i <= j

\* the tail of process(): lines 172-199
ProcessReturn(data_copy, results, cfg) ==
    IF cfg.combine_results /\ results # <<>>
    THEN create_result(MapReduce, data_copy,
             _combine_results(cfg.output_format, results),
             None, TRUE, NoError)
    ELSE IF results # <<>>
    THEN IF FirstSuccess(results) # 0 THEN results[FirstSuccess(results)]
         ELSE results[1]
    ELSE create_result(MapReduce, data_copy, NoneContent, None, FALSE,
             <<"No results from any processor">>)

\* self.processors of this instance: the first n_processors children
Held == 1..mr_cfg.n_processors

\* the record objects process() and its children hold
Objects == {"caller", "data_copy"} \cup {ProcNames[i] : i \in Children}

\* data.model_copy(deep=True), line 138: a new object
model_copy(obj, fresh) == fresh

NoCopy(obj, fresh) == obj

\* copy.deepcopy(data) in create_result: the envelope wraps a new object
deepcopy(obj, fresh) == fresh

MRInit ==
    /\ mr_cfg \in [parallel : BOOLEAN, combine_results : BOOLEAN,
                  output_format : {"markdown", "text"},
                  n_processors : 0..NumChildren]
    /\ mr_input \in {PipelineData("r1", <<"c0">>, k) : k \in {"text", "markdown"}}
    /\ mr_phase = "idle"
    /\ mr_child = [i \in Children |-> "queued"]
    /\ mr_future = [i \in Children |-> NoEnvelope]
    /\ mr_raised = [i \in Children |-> FALSE]
    /\ mr_next = 1
    /\ mr_results = <<>>
    /\ mr_timedOut = FALSE
    /\ mr_outcome = "none"
    /\ mr_ret = NoEnvelope
    /\ mr_heap = [o \in Objects |-> IF o = "caller" THEN mr_input ELSE NoEnvelope.data]
    /\ mr_ref = [i \in Children |-> None]

\* process() is entered: data_copy = data.model_copy(deep=True); in parallel
\* mode every child is submitted to the pool
MRStart ==
    /\ UNCHANGED mr_others
    /\ mr_phase = "idle"
    /\ mr_phase' = "running"
    /\ mr_heap' = [mr_heap EXCEPT ![model_copy("caller", "data_copy")] = mr_input]
    /\ UNCHANGED <<mr_cfg, mr_input, mr_child, mr_future, mr_raised, mr_next,
                   mr_results, mr_timedOut, mr_outcome, mr_ret, mr_ref>>

\* sequential mode, one iteration of lines 163-170
MRSequentialStep ==
    /\ UNCHANGED mr_others
    /\ mr_phase = "running"
    /\ ~mr_cfg.parallel
    /\ mr_next \in Held
    /\ \E outcome \in Outcomes :
         LET r == _process_with_processor(processors[mr_next], mr_input, outcome)
         IN IF r.escaped
            THEN /\ mr_phase' = "done"
                 /\ mr_outcome' = "raised"
                 /\ UNCHANGED <<mr_child, mr_future, mr_results, mr_next,
                                mr_heap, mr_ref>>
                 /\ mr_raised' = [mr_raised EXCEPT ![mr_next] = TRUE]
            ELSE /\ mr_child' = [mr_child EXCEPT ![mr_next] = "collected"]
                 /\ mr_future' = [mr_future EXCEPT ![mr_next] = r.result]
                 /\ mr_raised' = [mr_raised EXCEPT ![mr_next] = (outcome = "raise")]
                 /\ mr_results' = Append(mr_results, Tagged(r.result, r.name))
                 /\ LET obj == deepcopy("data_copy", ProcNames[mr_next])
                    IN /\ mr_ref' = [mr_ref EXCEPT ![mr_next] = obj]
                       /\ mr_heap' = [mr_heap EXCEPT
                                         ![obj] = Tagged(r.result, r.name).data]
                 /\ mr_next' = mr_next + 1
                 /\ UNCHANGED <<mr_phase, mr_outcome>>
    /\ UNCHANGED <<mr_cfg, mr_input, mr_timedOut, mr_ret>>

\* a pool worker takes the oldest queued child (the pool's queue is FIFO)
MRWorkerStart(i) ==
    /\ UNCHANGED mr_others
    /\ mr_phase \in {"running", "draining"}
    /\ mr_cfg.parallel
    /\ i \in Held
    /\ mr_child[i] = "queued"
    /\ \A j \in Children : j < i => mr_child[j] # "queued"
    /\ Cardinality({j \in Children : mr_child[j] = "running"}) < MaxWorkers
    /\ mr_child' = [mr_child EXCEPT ![i] = "running"]
    /\ UNCHANGED <<mr_cfg, mr_input, mr_phase, mr_future, mr_raised, mr_next,
                   mr_results, mr_timedOut, mr_outcome, mr_ret, mr_heap, mr_ref>>

\* the worker's _process_with_processor call ends; the future holds its value
MRWorkerFinish(i) ==
    /\ UNCHANGED mr_others
    /\ mr_phase \in {"running", "draining"}
    /\ mr_cfg.parallel
    /\ mr_child[i] = "running"
    /\ \E outcome \in Outcomes :
         LET r == _process_with_processor(processors[i], mr_input, outcome)
         IN /\ mr_child' = [mr_child EXCEPT ![i] = "finished"]
            /\ mr_future' = [mr_future EXCEPT ![i] = r.result]
            /\ mr_raised' = [mr_raised EXCEPT ![i] = (outcome = "raise")]
            /\ LET obj == deepcopy("data_copy", ProcNames[i])
               IN /\ mr_ref' = [mr_ref EXCEPT ![i] = obj]
                  /\ mr_heap' = [mr_heap EXCEPT ![obj] = r.result.data]
    /\ UNCHANGED <<mr_cfg, mr_input, mr_phase, mr_next, mr_results,
                   mr_timedOut, mr_outcome, mr_ret>>

\* one iteration of the as_completed loop, lines 152-160
MRCollect(i) ==
    /\ UNCHANGED mr_others
    /\ mr_phase = "running"
    /\ mr_cfg.parallel
    /\ mr_child[i] = "finished"
    /\ mr_child' = [mr_child EXCEPT ![i] = "collected"]
    /\ mr_results' = Append(mr_results, Tagged(mr_future[i], ProcNames[i]))
    /\ mr_heap' = [mr_heap EXCEPT ![mr_ref[i]].metadata.processor = ProcNames[i]]
    /\ UNCHANGED <<mr_cfg, mr_input, mr_phase, mr_future, mr_raised, mr_next,
                   mr_timedOut, mr_outcome, mr_ret, mr_ref>>

\* as_completed(timeout=...) raises TimeoutError while futures are unfinished;
\* nothing in process() catches it, and leaving the with-block waits for the pool
MRTimeout ==
    /\ UNCHANGED mr_others
    /\ mr_phase = "running"
    /\ mr_cfg.parallel
    /\ \E i \in Held : mr_child[i] \in {"queued", "running"}
    /\ mr_timedOut' = TRUE
    /\ mr_phase' = "draining"
    /\ UNCHANGED <<mr_cfg, mr_input, mr_child, mr_future, mr_raised, mr_next,
                   mr_results, mr_outcome, mr_ret, mr_heap, mr_ref>>

\* executor.shutdown(wait=True) is over: the TimeoutError leaves process()
MRRaise ==
    /\ UNCHANGED mr_others
    /\ mr_phase = "draining"
    /\ \A i \in Held : mr_child[i] \in {"finished", "collected"}
    /\ mr_phase' = "done"
    /\ mr_outcome' = "raised"
    /\ UNCHANGED <<mr_cfg, mr_input, mr_child, mr_future, mr_raised, mr_next,
                   mr_results, mr_timedOut, mr_ret, mr_heap, mr_ref>>

\* lines 172-199: every child was collected (or run, in sequential mode)
MRReturn ==
    /\ UNCHANGED mr_others
    /\ mr_phase = "running"
    /\ \A i \in Held : mr_child[i] = "collected"
    /\ mr_phase' = "done"
    /\ mr_outcome' = "returned"
    /\ mr_ret' = track_metrics(
                    ProcessReturn(mr_input, mr_results, mr_cfg))
    /\ UNCHANGED <<mr_cfg, mr_input, mr_child, mr_future, mr_raised, mr_next,
                   mr_results, mr_timedOut, mr_heap, mr_ref>>

MRNext ==
    \/ MRStart
    \/ MRSequentialStep
    \/ \E i \in Children : MRWorkerStart(i)
    \/ \E i \in Children : MRWorkerFinish(i)
    \/ \E i \in Children : MRCollect(i)
    \/ MRTimeout
    \/ MRRaise
    \/ MRReturn

\* the fan-out processor is not in use
MRIdle ==
    /\ mr_cfg = [parallel |-> FALSE, combine_results |-> FALSE,
                 output_format |-> "markdown", n_processors |-> NumChildren]
    /\ mr_input = PipelineData("r1", <<"c0">>, "text")
    /\ mr_phase = "unused"
    /\ mr_child = [i \in Children |-> "queued"]
    /\ mr_future = [i \in Children |-> NoEnvelope]
    /\ mr_raised = [i \in Children |-> FALSE]
    /\ mr_next = 1
    /\ mr_results = <<>>
    /\ mr_timedOut = FALSE
    /\ mr_outcome = "none"
    /\ mr_ret = NoEnvelope
    /\ mr_heap = [o \in Objects |-> NoEnvelope.data]
    /\ mr_ref = [i \in Children |-> None]

(***************************************************************************)
(* LLMProcessor.process and the op / asset wrappers of BaseProcessor       *)
(***************************************************************************)
Responses == {"ok", "no_choices", "bad_shape", "transport_error"}

\* LLMProcessor.process, lines 221-257, once _call_openrouter has ended with
\* `response`: "exhausted" is the Exception raised after the last attempt, and
\* "none" the None that falls out of the loop when retry_count is 0
LLMFinish(self, data, response) ==
    IF response = "ok"
    THEN create_result(self, [data EXCEPT !.metadata.model = "model"],
             <<"completion">>, None, TRUE, NoError)
    ELSE IF response = "no_choices"
    THEN create_result(self, data, NoneContent, None, FALSE,
             <<"Unexpected API response format">>)
    ELSE create_result(self, data, NoneContent, None, FALSE,
             <<"LLM error: ", response>>)

PRInit ==
    /\ pr_proc \in {BaseProcessor("llm", i, o) :
                        i \in {{"text"}, {"text", "markdown"}}, o \in {"text", "markdown"}}
    /\ pr_retry \in 0..MaxRetry
    /\ pr_data \in {PipelineData("r1", <<"c0">>, k) : k \in ContentType}
    /\ pr_via = "none"
    /\ pr_pc = "idle"
    /\ pr_attempt = 0
    /\ pr_calls = 0
    /\ pr_sleeps = <<>>
    /\ pr_env = NoEnvelope
    /\ pr_out = "none"

\* _op, lines 172-192, up to the call of self.process or the mismatch return
PRCallOp ==
    /\ UNCHANGED pr_others
    /\ pr_pc = "idle"
    /\ pr_via' = "op"
    /\ IF can_process(pr_proc, pr_data)
       THEN /\ pr_pc' = "attempt"
            /\ UNCHANGED <<pr_env, pr_out>>
       ELSE /\ pr_pc' = "done"
            /\ pr_out' = "envelope"
            /\ pr_env' = track_metrics(create_result(pr_proc, pr_data,
                              NoneContent, None, FALSE,
                              <<"Cannot handle data of type ", pr_data.content_type>>))
    /\ UNCHANGED <<pr_proc, pr_retry, pr_data, pr_attempt, pr_calls, pr_sleeps>>

\* _asset, lines 129-152, for one record of its input list
PRCallAsset ==
    /\ UNCHANGED pr_others
    /\ pr_pc = "idle"
    /\ pr_via' = "asset"
    /\ IF can_process(pr_proc, pr_data)
       THEN /\ pr_pc' = "attempt"
            /\ UNCHANGED <<pr_env, pr_out>>
       ELSE /\ pr_pc' = "done"
            /\ pr_out' = "no envelope"
            /\ UNCHANGED pr_env
    /\ UNCHANGED <<pr_proc, pr_retry, pr_data, pr_attempt, pr_calls, pr_sleeps>>

\* process() called directly: it starts with _prepare_messages
PRCallProcess ==
    /\ UNCHANGED pr_others
    /\ pr_pc = "idle"
    /\ pr_via' = "process"
    /\ pr_pc' = "attempt"
    /\ UNCHANGED <<pr_proc, pr_retry, pr_data, pr_attempt, pr_calls, pr_sleeps,
                   pr_env, pr_out>>

\* how the wrapper hands back what process() returned
Wrapped(via, env) == IF via = "op" THEN track_metrics(env) ELSE env

PRDone(response) ==
    /\ pr_pc' = "done"
    /\ pr_out' = "envelope"
    /\ pr_env' = Wrapped(pr_via, track_metrics(LLMFinish(pr_proc, pr_data, response)))

ConstantDelay(attempt) == 1

\* delay = retry_delay * (attempt + 1), in units of retry_delay
Delay(attempt) == attempt + 1

\* one iteration of the retry loop of _call_openrouter, lines 159-178, and,
\* when the loop ends, the rest of process()
PRAttempt ==
    /\ UNCHANGED pr_others
    /\ pr_pc = "attempt"
    /\ IF pr_attempt >= pr_retry
       THEN \* range(retry_count) is empty: _call_openrouter returns None
            /\ PRDone("none")
            /\ UNCHANGED <<pr_attempt, pr_calls, pr_sleeps>>
       ELSE \E response \in Responses :
            /\ pr_calls' = pr_calls + 1
            /\ IF response # "transport_error"
               THEN /\ PRDone(response)
                    /\ UNCHANGED <<pr_attempt, pr_sleeps>>
               ELSE IF pr_attempt < pr_retry - 1
               THEN /\ pr_sleeps' = Append(pr_sleeps, Delay(pr_attempt))
                    /\ pr_attempt' = pr_attempt + 1
                    /\ UNCHANGED <<pr_pc, pr_env, pr_out>>
               ELSE /\ PRDone("exhausted")
                    /\ UNCHANGED <<pr_attempt, pr_sleeps>>
    /\ UNCHANGED <<pr_proc, pr_retry, pr_data, pr_via>>

PRNext ==
    \/ PRCallOp
    \/ PRCallAsset
    \/ PRCallProcess
    \/ PRAttempt

PRIdle ==
    /\ pr_proc = BaseProcessor("llm", {"text"}, "text")
    /\ pr_retry = 0
    /\ pr_data = PipelineData("r1", <<"c0">>, "text")
    /\ pr_via = "none"
    /\ pr_pc = "unused"
    /\ pr_attempt = 0
    /\ pr_calls = 0
    /\ pr_sleeps = <<>>
    /\ pr_env = NoEnvelope
    /\ pr_out = "none"

(***************************************************************************)
(* Durable catalog of the RSS adapter (utils/database.py)                  *)
(***************************************************************************)
feed_urls == <<"f1", "f2">>
Feeds == {feed_urls[k] : k \in 1..Len(feed_urls)}

\* Feed row with the column defaults; exists = FALSE until first contact
Feed == [exists |-> FALSE, muted |-> FALSE, muted_reason |-> <<>>,
         error_count |-> 0, no_entries_count |-> 0, last_error |-> None,
         last_checked |-> 0, article_count |-> 0]

Article(guid, feed_id) == [guid |-> guid, feed_id |-> feed_id, processed |-> FALSE]

\* a feed entry: its id (or link), "" when it has neither, and its publish
\* date: 0 when it has none, 1 before the lookback date, 2 and 3 inside
Entry(guid, published) == [guid |-> guid, published |-> published]

\* what a poll of a feed can meet: `failed` fetch attempts before one that
\* answers with `entries`, and the entry (counted among the new ones handled)
\* at which building the Article raises, 0 for none
PollInput(failed, entries, raise_at) ==
    [failed |-> failed, entries |-> entries, raise_at |-> raise_at]

\* no feed polled yet
NoPoll == [feed |-> None, input |-> PollInput(0, <<>>, 0)]

e1 == Entry("g1", 3)
e2 == Entry("g2", 2)
e3 == Entry("g3", 0)
e4 == Entry("g4", 1)
e5 == Entry("g5", 3)
eNoId == Entry("", 3)

\* A run is long and meets sources that fail, are empty or carry one entry
\* ("health"), or it is short and meets sources with several entries
\* ("content").
Worlds == {"health", "content"}

CallCap(world) == IF world = "health" THEN MaxCalls ELSE MaxContentCalls

PollInputs(world, feed_url) ==
    IF world = "health"
    THEN IF feed_url = "f1"
         THEN {PollInput(FetchAttempts, <<e1>>, 0),
               PollInput(0, <<>>, 0),
               PollInput(1, <<e1>>, 0),
               PollInput(0, <<e2, e1>>, 1)}
         ELSE {PollInput(0, <<>>, 0),
               PollInput(0, <<e5>>, 0)}
    ELSE IF feed_url = "f1"
         THEN {PollInput(0, <<e1>>, 0),
               PollInput(0, <<e4, eNoId>>, 0),
               PollInput(0, <<e2, e1>>, 0),
               PollInput(0, <<e2, e1>>, 1),
               PollInput(0, <<e2, e1>>, 2),
               PollInput(0, <<e3, e2, e1>>, 0),
               PollInput(0, <<e3>>, 0),
               PollInput(0, <<e2, e2>>, 0)}
         ELSE {PollInput(0, <<e5, e1>>, 0),
               PollInput(0, <<e5, e1>>, 1)}

(***************************************************************************)
(* RSSIngestor                                                             *)
(***************************************************************************)
InLookback(entry) == entry.published = 0 \/ entry.published >= 2

\* _get_feed_entries: every exception and every HTTP error is retried, and
\* after the last attempt the function returns [] instead of raising
_get_feed_entries(input) ==
    IF input.failed >= FetchAttempts THEN <<>>
    ELSE SelectSeq(input.entries, InLookback)

RECURSIVE InsertByDate(_, _)
\* place entry e after every entry at least as new: a stable sort, newest
\* first, entries without a date last (datetime.min)
InsertByDate(e, sorted) ==
    IF sorted = <<>> THEN <<e>>
    ELSE IF Head(sorted).published >= e.published
         THEN <<Head(sorted)>> \o InsertByDate(e, Tail(sorted))
         ELSE <<e>> \o sorted

RECURSIVE SortNewestFirst(_)
SortNewestFirst(entries) ==
    IF entries = <<>> THEN <<>>
    ELSE InsertByDate(entries[Len(entries)],
                      SortNewestFirst(SubSeq(entries, 1, Len(entries) - 1)))

Limit(entries, max_articles) ==
    SubSeq(entries, 1, IF Len(entries) < max_articles THEN Len(entries)
                       ELSE max_articles)

Guids(articles) == {articles[k].guid : k \in 1..Len(articles)}

\* the existence check of lines 201-203 reads the table, not the session's
\* pending rows (the session is created with autoflush=False)
ExistingArticle(guid, articles) == guid \in Guids(articles)

RECURSIVE StoreEntries(_, _, _, _, _)
\* the loop of lines 195-264 over the sorted, limited entries: `pending` are
\* the rows added to the session, `handled` counts the new entries reached
StoreEntries(entries, feed_id, articles, pending, raise_at) ==
    IF entries = <<>> THEN [pending |-> pending, raised |-> FALSE]
    ELSE LET guid == Head(entries).guid
         IN IF guid = "" \/ ExistingArticle(guid, articles)
            THEN StoreEntries(Tail(entries), feed_id, articles, pending, raise_at)
            ELSE IF raise_at = 1
            THEN [pending |-> pending, raised |-> TRUE]
            ELSE StoreEntries(Tail(entries), feed_id, articles,
                              Append(pending, Article(guid, feed_id)),
                              IF raise_at = 0 THEN 0 ELSE raise_at - 1)

\* the unique constraint on articles.guid, checked when commit() flushes
CommitFails(articles, pending) ==
    \/ \E k \in 1..Len(pending) : pending[k].guid \in Guids(articles)
    \/ \E j, k \in 1..Len(pending) : j # k /\ pending[j].guid = pending[k].guid

\* feed.error_count >= 5 in the except branch
ShouldMute(error_count) == error_count >= MuteThreshold

WarnAtThreshold(no_entries_count) == no_entries_count >= EmptyWarnThreshold

\* feed.no_entries_count > 5
ShouldWarn(no_entries_count) == no_entries_count > EmptyWarnThreshold

\* _process_feed(feed, ...): the feed row and the table after it, the
\* new_articles it reports, whether it logged the empty-poll warning, and
\* whether an exception left it (a failed commit leaves the session rolled
\* back, and the commit in the except branch raises in turn)
_process_feed(feed, feed_id, articles, input, now) ==
    LET checked == [feed EXCEPT !.last_checked = now]
        entries == _get_feed_entries(input)
        stored == StoreEntries(Limit(SortNewestFirst(entries), max_articles_per_feed),
                               feed_id, articles, <<>>, input.raise_at)
        new_article_count == Len(stored.pending)
        rolled_back == [feed |-> feed, articles |-> articles, new_articles |-> 0,
                        warned |-> FALSE, escaped |-> TRUE]
    IN IF entries = <<>>
       THEN [feed |-> [checked EXCEPT !.no_entries_count = @ + 1],
             articles |-> articles, new_articles |-> 0,
             warned |-> ShouldWarn(checked.no_entries_count + 1),
             escaped |-> FALSE]
       ELSE IF CommitFails(articles, stored.pending) THEN rolled_back
       ELSE IF ~stored.raised
       THEN [feed |-> [checked EXCEPT
                          !.no_entries_count = 0,
                          !.article_count = @ + new_article_count,
                          !.error_count = 0,
                          !.last_error = None],
             articles |-> articles \o stored.pending,
             new_articles |-> new_article_count,
             warned |-> FALSE, escaped |-> FALSE]
       ELSE LET error_count == checked.error_count + 1
            IN [feed |-> [checked EXCEPT
                             !.no_entries_count = 0,
                             !.error_count = error_count,
                             !.last_error = "exc",
                             !.muted = IF ShouldMute(error_count) THEN TRUE ELSE @,
                             !.muted_reason =
                                 IF ShouldMute(error_count)
                                 THEN <<"Auto-muted after ", error_count,
                                        " consecutive errors. Last error: ", "exc">>
                                 ELSE @],
                articles |-> articles \o stored.pending,
                new_articles |-> 0, warned |-> FALSE, escaped |-> FALSE]

\* lines 130-135: every article of the feed still flagged unprocessed
Unprocessed(articles, feed_id) ==
    LET Mine(a) == a.feed_id = feed_id /\ ~a.processed
        rows == SelectSeq(articles, Mine)
    IN [k \in 1..Len(rows) |-> rows[k].guid]

NeverSkip(feed) == FALSE

\* lines 114-117
SkipMuted(feed) == feed.muted

\* the keys a poll presents: those of the entries the feed answered with
Presented(input) ==
    IF input.failed >= FetchAttempts THEN {}
    ELSE {input.entries[k].guid : k \in 1..Len(input.entries)}

RSSInit ==
    /\ in_adapter = "rss"
    /\ in_world \in Worlds
    /\ in_pc = "idle"
    /\ in_i = 1
    /\ in_calls = 0
    /\ in_results = <<>>
    /\ in_outcome = "none"
    /\ in_surfaced = {}
    /\ in_seen = {}
    /\ in_repeat = FALSE
    /\ in_fetched = {}
    /\ in_polled = NoPoll
    /\ rss_feed = [f \in Feeds |-> Feed]
    /\ rss_articles = <<>>
    /\ rss_fetchErrs = [f \in Feeds |-> 0]
    /\ rss_warnings = [f \in Feeds |-> 0]

\* ingest() is entered: lines 85-94
RSSIngestBegin ==
    /\ UNCHANGED in_others
    /\ in_adapter = "rss"
    /\ in_pc = "idle"
    /\ in_calls < CallCap(in_world)
    /\ in_pc' = "feeds"
    /\ in_i' = 1
    /\ in_calls' = in_calls + 1
    /\ in_results' = <<>>
    /\ in_outcome' = "none"
    /\ in_surfaced' = in_surfaced \cup {in_results[k] : k \in 1..Len(in_results)}
    /\ in_repeat' = FALSE
    /\ in_fetched' = {}
    /\ in_polled' = NoPoll
    /\ UNCHANGED <<in_adapter, in_world, in_seen, rss_vars>>

\* the catalog cannot be read: the query of line 97 raises, and nothing in
\* ingest() catches it
RSSCatalogFault ==
    /\ UNCHANGED in_others
    /\ in_adapter = "rss"
    /\ in_pc = "feeds"
    /\ in_i <= Len(feed_urls)
    /\ in_pc' = "idle"
    /\ in_i' = 1
    /\ in_outcome' = "raised"
    /\ in_results' = <<>>
    /\ UNCHANGED <<in_adapter, in_world, in_calls, in_surfaced, in_seen, in_repeat,
                   in_fetched, in_polled, rss_vars>>

\* one iteration of the loop of lines 95-135 over feed_urls, for a muted feed
RSSSkipMuted ==
    /\ UNCHANGED in_others
    /\ in_adapter = "rss"
    /\ in_pc = "feeds"
    /\ in_i <= Len(feed_urls)
    /\ rss_feed[feed_urls[in_i]].exists
    /\ SkipMuted(rss_feed[feed_urls[in_i]])
    /\ in_i' = in_i + 1
    /\ UNCHANGED <<in_adapter, in_world, in_pc, in_calls, in_results, in_outcome,
                   in_surfaced, in_seen, in_repeat, in_fetched, in_polled, rss_vars>>

\* one iteration of the loop of lines 95-135 over feed_urls: first contact
\* creates the row, then _process_feed, then the unprocessed articles of the
\* feed are appended when it reported new ones
RSSPollFeed ==
    /\ UNCHANGED in_others
    /\ in_adapter = "rss"
    /\ in_pc = "feeds"
    /\ in_i <= Len(feed_urls)
    /\ LET f == feed_urls[in_i]
           row == [rss_feed[f] EXCEPT !.exists = TRUE]
       IN /\ ~(rss_feed[f].exists /\ SkipMuted(rss_feed[f]))
          /\ \E input \in PollInputs(in_world, f) :
               LET r == _process_feed(row, f, rss_articles, input, in_calls)
               IN /\ rss_feed' = [rss_feed EXCEPT ![f] = r.feed]
                  /\ rss_articles' = r.articles
                  /\ in_fetched' = in_fetched \cup {f}
                  /\ in_polled' = [feed |-> f, input |-> input]
                  /\ rss_fetchErrs' = [rss_fetchErrs EXCEPT ![f] =
                         IF input.failed >= FetchAttempts THEN @ + 1 ELSE 0]
                  /\ rss_warnings' = [rss_warnings EXCEPT ![f] =
                         IF r.warned THEN @ + 1 ELSE @]
                  /\ in_seen' = in_seen \cup Presented(input)
                  /\ in_repeat' = (Presented(input) # {}
                                    /\ Presented(input) \subseteq in_seen)
                  /\ IF r.escaped
                     THEN /\ in_pc' = "idle"
                          /\ in_outcome' = "raised"
                          /\ in_results' = <<>>
                          /\ in_i' = 1
                     ELSE /\ in_i' = in_i + 1
                          /\ in_results' =
                                IF r.new_articles > 0
                                THEN in_results \o Unprocessed(r.articles, f)
                                ELSE in_results
                          /\ UNCHANGED <<in_pc, in_outcome>>
    /\ UNCHANGED <<in_adapter, in_world, in_calls, in_surfaced>>

\* lines 137-138
RSSIngestReturn ==
    /\ UNCHANGED in_others
    /\ in_adapter = "rss"
    /\ in_pc = "feeds"
    /\ in_i > Len(feed_urls)
    /\ in_pc' = "idle"
    /\ in_i' = 1
    /\ in_outcome' = "returned"
    /\ UNCHANGED <<in_adapter, in_world, in_calls, in_results, in_surfaced,
                   in_seen, in_repeat, in_fetched, in_polled, rss_vars>>

IngestNext ==
    \/ RSSIngestBegin
    \/ RSSCatalogFault
    \/ RSSSkipMuted
    \/ RSSPollFeed
    \/ RSSIngestReturn

\* no source adapter is in use
IngestIdle ==
    /\ in_adapter = "none"
    /\ in_world = "none"
    /\ in_pc = "unused"
    /\ in_i = 1
    /\ in_calls = 0
    /\ in_results = <<>>
    /\ in_outcome = "none"
    /\ in_surfaced = {}
    /\ in_seen = {}
    /\ in_repeat = FALSE
    /\ in_fetched = {}
    /\ in_polled = NoPoll
    /\ rss_feed = [f \in Feeds |-> Feed]
    /\ rss_articles = <<>>
    /\ rss_fetchErrs = [f \in Feeds |-> 0]
    /\ rss_warnings = [f \in Feeds |-> 0]

(***************************************************************************)
(* IMessageOutput (outputs/imessage_output.py)                             *)
(* Text is a sequence of characters: "a" stands for any character that is  *)
(* neither white space nor a full stop.                                    *)
(***************************************************************************)
Alphabet == {"a", ".", " ", "\n"}

Contents == UNION {[1..n -> Alphabet] : n \in 0..MaxMsgLen}

recipients == [k \in 1..NumRecipients |-> k]

Min(a, b) == IF a < b THEN a ELSE b
Max(a, b) == IF a > b THEN a ELSE b

\* Python s[:k], k of either sign
SliceTo(s, k) ==
    IF k >= 0 THEN SubSeq(s, 1, Min(k, Len(s)))
    ELSE SubSeq(s, 1, Max(Len(s) + k, 0))

\* Python s[k:], 0 <= k
SliceFrom(s, k) == SubSeq(s, Min(k, Len(s)) + 1, Len(s))

\* Python s.rfind(pat): the highest 0-based index at which pat occurs, or -1
rfind(s, pat) ==
    LET hits == {i \in 0..(Len(s) - Len(pat)) : SubSeq(s, i + 1, i + Len(pat)) = pat}
    IN IF hits = {} THEN -1 ELSE CHOOSE i \in hits : \A j \in hits : j <= i

RECURSIVE lstrip(_)
lstrip(s) ==
    IF s # <<>> /\ Head(s) \in {" ", "\n"} THEN lstrip(Tail(s)) ELSE s

\* "...\n[Message truncated]"
TruncationMarker ==
    <<".", ".", ".", "\n">> \o [k \in 1..8 |-> "a"] \o <<" ">> \o [k \in 1..10 |-> "a"]

\* _format_message with add_prefix and add_suffix unset
_format_message(cfg, content) ==
    IF Len(content) > cfg.max_length /\ cfg.truncate_long_messages
    THEN SliceTo(content, cfg.max_length - TruncateReserve) \o TruncationMarker
    ELSE content

\* lines 154-160
BreakPoint(remaining, chunk_size) ==
    LET head == SliceTo(remaining, chunk_size)
    IN IF rfind(head, <<"\n", "\n">>) # -1 THEN rfind(head, <<"\n", "\n">>)
       ELSE IF rfind(head, <<"\n">>) # -1 THEN rfind(head, <<"\n">>)
       ELSE IF rfind(head, <<".", " ">>) # -1 THEN rfind(head, <<".", " ">>)
       ELSE chunk_size

RECURSIVE Digits(_)
Digits(n) == IF n < 10 THEN <<ToString(n)>> ELSE Digits(n \div 10) \o <<ToString(n % 10)>>

\* f"[Part {i+1}/{len(chunks)}]\n\n", part counted from 1
PartHeader(part, count) ==
    <<"[", "P", "a", "r", "t", " ">> \o Digits(part) \o <<"/">> \o Digits(count)
        \o <<"]", "\n", "\n">>

\* the text handed to _send_imessage for chunk k: lines 168-170, and the whole
\* message when it was not split
SentText(chunks, k) ==
    IF Len(chunks) > 1 THEN PartHeader(k, Len(chunks)) \o chunks[k] ELSE chunks[k]

LastSendOnly(success, ok) == ok

\* lines 174-175 and 183-184
AfterSend(success, ok) == IF ~ok THEN FALSE ELSE success

IMInit ==
    /\ im_cfg \in [max_length : {2, 3}, truncate_long_messages : BOOLEAN,
                   split_long_messages : BOOLEAN]
    /\ im_content \in Contents
    /\ im_pc = "idle"
    /\ im_message = <<>>
    /\ im_remaining = <<>>
    /\ im_chunks = <<>>
    /\ im_ci = 1
    /\ im_ri = 1
    /\ im_sent = <<>>
    /\ im_success = TRUE
    /\ im_anyFailed = FALSE
    /\ im_lastOk = TRUE
    /\ im_ret = "none"

\* output() is entered: lines 140-146, or 180-181 when the message is not split
IMOutput ==
    /\ UNCHANGED im_others
    /\ im_pc = "idle"
    /\ LET message == _format_message(im_cfg, im_content)
       IN /\ im_message' = message
          /\ IF im_cfg.split_long_messages /\ Len(message) > im_cfg.max_length
             THEN /\ im_pc' = "split"
                  /\ im_remaining' = message
                  /\ im_chunks' = <<>>
             ELSE /\ im_pc' = "send"
                  /\ im_remaining' = <<>>
                  /\ im_chunks' = <<message>>
    /\ UNCHANGED <<im_cfg, im_content, im_ci, im_ri, im_sent, im_success,
                   im_anyFailed, im_lastOk, im_ret>>

\* one iteration of the loop of lines 148-163; the loop ends when remaining
\* is empty
IMSplitStep ==
    /\ UNCHANGED im_others
    /\ im_pc = "split"
    /\ im_remaining # <<>>
    /\ Len(im_chunks) < MaxChunks
    /\ LET chunk_size == im_cfg.max_length
           break_point == BreakPoint(im_remaining, chunk_size)
           remaining == IF Len(im_remaining) <= chunk_size THEN <<>>
                        ELSE lstrip(SliceFrom(im_remaining, break_point))
       IN /\ im_chunks' = IF Len(im_remaining) <= chunk_size
                          THEN Append(im_chunks, im_remaining)
                          ELSE Append(im_chunks, SliceTo(im_remaining, break_point))
          /\ im_remaining' = remaining
          /\ im_pc' = IF remaining = <<>> THEN "send" ELSE "split"
    /\ UNCHANGED <<im_cfg, im_content, im_message, im_ci, im_ri, im_sent,
                   im_success, im_anyFailed, im_lastOk, im_ret>>

\* one _send_imessage call of the loops of lines 167-175 and 182-184
IMSend ==
    /\ UNCHANGED im_others
    /\ im_pc = "send"
    /\ im_ci <= Len(im_chunks)
    /\ \E ok \in BOOLEAN :
         /\ im_sent' = Append(im_sent, [to |-> recipients[im_ri],
                                        text |-> SentText(im_chunks, im_ci)])
         /\ im_success' = AfterSend(im_success, ok)
         /\ im_anyFailed' = (im_anyFailed \/ ~ok)
         /\ im_lastOk' = ok
    /\ IF im_ri < NumRecipients
       THEN /\ im_ri' = im_ri + 1
            /\ UNCHANGED im_ci
       ELSE /\ im_ri' = 1
            /\ im_ci' = im_ci + 1
    /\ UNCHANGED <<im_cfg, im_content, im_pc, im_message, im_remaining, im_chunks,
                   im_ret>>

\* lines 177 and 186
IMReturn ==
    /\ UNCHANGED im_others
    /\ im_pc = "send"
    /\ im_ci > Len(im_chunks)
    /\ im_pc' = "done"
    /\ im_ret' = im_success
    /\ UNCHANGED <<im_cfg, im_content, im_message, im_remaining, im_chunks, im_ci,
                   im_ri, im_sent, im_success, im_anyFailed, im_lastOk>>

IMNext ==
    \/ IMOutput
    \/ IMSplitStep
    \/ IMSend
    \/ IMReturn

\* the messaging sink is not in use
IMIdle ==
    /\ im_cfg = [max_length |-> 2, truncate_long_messages |-> FALSE,
                 split_long_messages |-> FALSE]
    /\ im_content = <<>>
    /\ im_pc = "unused"
    /\ im_message = <<>>
    /\ im_remaining = <<>>
    /\ im_chunks = <<>>
    /\ im_ci = 1
    /\ im_ri = 1
    /\ im_sent = <<>>
    /\ im_success = TRUE
    /\ im_anyFailed = FALSE
    /\ im_lastOk = TRUE
    /\ im_ret = "none"

(***************************************************************************)
(* The vault sink: ObsidianOutput.output                                   *)
(* A file name and a file's text are sequences of their parts.             *)
(***************************************************************************)
Titles == {"t1", "t2"}

Bodies == {<<"b1">>, <<"b2">>}

\* no file of that name
NoFile == <<"<no file>">>

\* _get_file_path with file_template "{title}": "<title>.md"
_get_file_path(title) == <<title, ".md">>

\* f"{base_name}_{timestamp}.md", timestamp = now to the second
SiblingPath(title, now) == <<title, "_", ToString(now), ".md">>

VaultNames ==
    {_get_file_path(t) : t \in Titles}
        \cup {SiblingPath(t, k) : t \in Titles, k \in 1..MaxClock}

\* _format_content with no content_template and add_timestamp left at its default
_format_content(cfg, title, body, now) ==
    IF cfg.add_frontmatter
    THEN <<"---", title, ToString(now), "---", "\n\n">> \o body
    ELSE body \o <<"\n\n", "> Generated on ", ToString(now), "\n\n">>

\* the branch output() takes (lines 221-262)
WritePolicy(cfg, file_exists) ==
    IF ~file_exists THEN "create"
    ELSE IF cfg.append THEN "append"
    ELSE IF cfg.prepend THEN "prepend"
    ELSE IF cfg.overwrite THEN "overwrite"
    ELSE "sibling"

\* the vault after the branch has written
Written(files, policy, file_path, new_path, content) ==
    CASE policy = "append" ->
            [files EXCEPT ![file_path] = @ \o <<"\n\n">> \o content]
      [] policy = "prepend" ->
            [files EXCEPT ![file_path] = content \o <<"\n\n">> \o @]
      [] policy = "sibling" ->
            [files EXCEPT ![new_path] = content]
      [] OTHER ->
            [files EXCEPT ![file_path] = content]

NoCall == [title |-> None, file_path |-> <<>>, content |-> <<>>, policy |-> "none"]

OBInit ==
    /\ ob_cfg \in [append : BOOLEAN, prepend : BOOLEAN, overwrite : BOOLEAN,
                   add_frontmatter : BOOLEAN]
    /\ ob_files \in {f \in [VaultNames -> {NoFile, <<"old">>}] :
                        \A t \in Titles : \A k \in 1..MaxClock :
                            f[SiblingPath(t, k)] = NoFile}
    /\ ob_clock = 1
    /\ ob_calls = 0
    /\ ob_last = NoCall
    /\ ob_ret = "none"

\* one call of output() that reaches "return True"
OBOutput ==
    /\ UNCHANGED ob_others
    /\ ob_calls < MaxOutputs
    /\ \E title \in Titles, body \in Bodies :
          LET file_path == _get_file_path(title)
              content == _format_content(ob_cfg, title, body, ob_clock)
              file_exists == ob_files[file_path] # NoFile
              policy == WritePolicy(ob_cfg, file_exists)
              new_path == SiblingPath(title, ob_clock)
          IN /\ ob_files' = Written(ob_files, policy, file_path, new_path, content)
             /\ ob_last' = [title |-> title, file_path |-> file_path,
                            content |-> content, policy |-> policy]
    /\ ob_calls' = ob_calls + 1
    /\ ob_ret' = TRUE
    /\ UNCHANGED <<ob_cfg, ob_clock>>

\* one call of output() in which the folder or the file cannot be opened:
\* the exception is caught at line 266
OBOutputFails ==
    /\ UNCHANGED ob_others
    /\ ob_calls < MaxOutputs
    /\ \E title \in Titles :
          ob_last' = [title |-> title, file_path |-> _get_file_path(title),
                      content |-> <<>>, policy |-> "none"]
    /\ ob_calls' = ob_calls + 1
    /\ ob_ret' = FALSE
    /\ UNCHANGED <<ob_cfg, ob_files, ob_clock>>

\* the wall clock reaches the next second
OBTick ==
    /\ UNCHANGED ob_others
    /\ ob_clock < MaxClock
    /\ ob_clock' = ob_clock + 1
    /\ UNCHANGED <<ob_cfg, ob_files, ob_calls, ob_last, ob_ret>>

OBNext ==
    \/ OBOutput
    \/ OBOutputFails
    \/ OBTick

\* the vault sink is not in use
OBIdle ==
    /\ ob_cfg = [append |-> FALSE, prepend |-> FALSE, overwrite |-> FALSE,
                 add_frontmatter |-> TRUE]
    /\ ob_files = [n \in VaultNames |-> NoFile]
    /\ ob_clock = 0
    /\ ob_calls = 0
    /\ ob_last = NoCall
    /\ ob_ret = "none"

(***************************************************************************)
(* The command line: main() and CLIIngestor.ingest                         *)
(***************************************************************************)
StdinAlphabet == {"a", " ", "\n"}

StdinTexts == UNION {[1..n -> StdinAlphabet] : n \in 0..MaxStdinLen}

RECURSIVE rstrip(_)
rstrip(s) ==
    IF s # <<>> /\ s[Len(s)] \in {" ", "\n"} THEN rstrip(SubSeq(s, 1, Len(s) - 1)) ELSE s

\* str.strip()
NoStrip(s) == s

strip(s) == rstrip(lstrip(s))

ReadEverything(text, max_size) == text

\* sys.stdin.read(max_size)
read(text, max_size) ==
    IF max_size = ReadAll THEN text ELSE SubSeq(text, 1, Min(max_size, Len(text)))

\* BaseIngestor.create_pipeline_data
create_pipeline_data(adapter, content, metadata) ==
    [id |-> "uuid4", content |-> content, content_type |-> adapter.content_type,
     source |-> adapter.source_name, metadata |-> metadata]

\* CLIIngestor.ingest
ingest(adapter, stdin) ==
    LET raw == read(stdin.text, adapter.max_size)
        content == IF ~stdin.isatty
                   THEN IF adapter.trim_whitespace THEN strip(raw) ELSE raw
                   ELSE <<>>
    IN IF content = <<>> THEN <<>>
       ELSE <<create_pipeline_data(adapter, content,
                                   [size |-> Len(content), source |-> "stdin"])>>

\* CLIIngestor() as main() constructs it
DefaultCLIIngestor ==
    [source_name |-> "cli", content_type |-> "text", trim_whitespace |-> TRUE,
     max_size |-> ReadAll]

CLIAdapters ==
    [source_name : {"cli", "custom_source"}, content_type : {"text", "markdown"},
     trim_whitespace : BOOLEAN, max_size : {ReadAll} \cup 0..MaxStdinLen]

CLIInit ==
    /\ cli_via \in {"main", "ingest"}
    /\ cli_command \in {"process", None}
    /\ cli_via = "ingest" => cli_command = None
    /\ cli_adapter \in CLIAdapters
    /\ cli_via = "main" => cli_adapter = DefaultCLIIngestor
    /\ cli_stdin \in [isatty : BOOLEAN, text : StdinTexts]
    /\ cli_pc = "start"
    /\ cli_ret = <<>>
    /\ cli_stderr = <<>>
    /\ cli_stdout = <<>>
    /\ cli_exit = "running"
    /\ cli_processed = <<>>

\* ingest() called on a configured adapter
CLIIngest ==
    /\ UNCHANGED cli_others
    /\ cli_via = "ingest"
    /\ cli_pc = "start"
    /\ cli_ret' = ingest(cli_adapter, cli_stdin)
    /\ cli_pc' = "done"
    /\ UNCHANGED <<cli_via, cli_command, cli_adapter, cli_stdin, cli_stderr,
                   cli_stdout, cli_exit, cli_processed>>

\* main(), process subcommand, lines 46-55
CLIMainIngest ==
    /\ UNCHANGED cli_others
    /\ cli_via = "main"
    /\ cli_command = "process"
    /\ cli_pc = "start"
    /\ LET input_data == ingest(cli_adapter, cli_stdin)
       IN /\ cli_ret' = input_data
          /\ IF input_data = <<>>
             THEN /\ cli_stderr' = Append(cli_stderr, "No input provided")
                  /\ cli_exit' = 1
                  /\ cli_pc' = "done"
             ELSE /\ cli_pc' = "ingested"
                  /\ UNCHANGED <<cli_stderr, cli_exit>>
    /\ UNCHANGED <<cli_via, cli_command, cli_adapter, cli_stdin, cli_stdout,
                   cli_processed>>

\* main(), process subcommand, lines 57-76
CLIMainProcess ==
    /\ UNCHANGED cli_others
    /\ cli_pc = "ingested"
    /\ cli_processed' = Append(cli_processed, cli_ret[1])
    /\ \E success \in BOOLEAN :
          IF success
          THEN /\ cli_stdout' = Append(cli_stdout, "result")
               /\ cli_exit' = 0
               /\ UNCHANGED cli_stderr
          ELSE /\ cli_stderr' = Append(cli_stderr, "Error")
               /\ cli_exit' = 1
               /\ UNCHANGED cli_stdout
    /\ cli_pc' = "done"
    /\ UNCHANGED <<cli_via, cli_command, cli_adapter, cli_stdin, cli_ret>>

\* main() with no subcommand, line 78
CLIMainHelp ==
    /\ UNCHANGED cli_others
    /\ cli_via = "main"
    /\ cli_command = None
    /\ cli_pc = "start"
    /\ cli_stdout' = Append(cli_stdout, "usage")
    /\ cli_exit' = 0
    /\ cli_pc' = "done"
    /\ UNCHANGED <<cli_via, cli_command, cli_adapter, cli_stdin, cli_ret,
                   cli_stderr, cli_processed>>

CLINext ==
    \/ CLIIngest
    \/ CLIMainIngest
    \/ CLIMainProcess
    \/ CLIMainHelp

\* the command line is not in use
CLIIdle ==
    /\ cli_via = "unused"
    /\ cli_command = None
    /\ cli_adapter = DefaultCLIIngestor
    /\ cli_stdin = [isatty |-> TRUE, text |-> <<>>]
    /\ cli_pc = "unused"
    /\ cli_ret = <<>>
    /\ cli_stderr = <<>>
    /\ cli_stdout = <<>>
    /\ cli_exit = "running"
    /\ cli_processed = <<>>

(***************************************************************************)
(* The wired pipeline: model_to_obsidian / models_to_obsidian and the      *)
(* sink's own asset                                                        *)
(***************************************************************************)
\* what a transform step hands on for the k-th record: a successful
\* envelope, or the failure envelope create_result builds around the record
ResultEnvelopes(k) ==
    {ProcessorResult(PipelineData(ToString(k), <<"content">>, t), ok,
                     IF ok THEN NoError ELSE <<"error">>) :
        t \in {"text", "audio"}, ok \in BOOLEAN}

ResultLists ==
    UNION {{r \in [1..n -> UNION {ResultEnvelopes(k) : k \in 1..MaxRecords}] :
               \A k \in 1..n : r[k] \in ResultEnvelopes(k)} : n \in 0..MaxRecords}

\* ObsidianOutput's accepted_types
accepted_types == {"text", "markdown"}

\* BaseOutput.can_output
can_output(result) == result.data.content_type \in accepted_types

PLInit ==
    /\ pl_via \in {"model_to_obsidian", "asset"}
    /\ pl_results \in ResultLists
    /\ pl_i = 1
    /\ pl_pc = "loop"
    /\ pl_outputs = <<>>
    /\ pl_written = <<>>
    /\ pl_ret = <<>>

\* one iteration of the loop of assets.py lines 247-249 (and 277-279):
\* output() is invoked on the envelope, which writes its record unless the
\* write fails
PLModelToObsidian ==
    /\ UNCHANGED pl_others
    /\ pl_via = "model_to_obsidian"
    /\ pl_pc = "loop"
    /\ pl_i <= Len(pl_results)
    /\ pl_outputs' = Append(pl_outputs, pl_results[pl_i])
    /\ \E ok \in BOOLEAN :
          /\ pl_written' = IF ok THEN Append(pl_written, pl_results[pl_i])
                           ELSE pl_written
          /\ pl_ret' = Append(pl_ret, ok)
    /\ pl_i' = pl_i + 1
    /\ UNCHANGED <<pl_via, pl_results, pl_pc>>

\* one iteration of the loop of base_output.py lines 98-117
PLAssetStep ==
    /\ UNCHANGED pl_others
    /\ pl_via = "asset"
    /\ pl_pc = "loop"
    /\ pl_i <= Len(pl_results)
    /\ IF can_output(pl_results[pl_i])
       THEN /\ pl_outputs' = Append(pl_outputs, pl_results[pl_i])
            /\ \E ok \in BOOLEAN :
                  /\ pl_written' = IF ok THEN Append(pl_written, pl_results[pl_i])
                                   ELSE pl_written
                  /\ pl_ret' = Append(pl_ret, ok)
       ELSE UNCHANGED <<pl_outputs, pl_written, pl_ret>>
    /\ pl_i' = pl_i + 1
    /\ UNCHANGED <<pl_via, pl_results, pl_pc>>

\* return results
PLReturn ==
    /\ UNCHANGED pl_others
    /\ pl_pc = "loop"
    /\ pl_i > Len(pl_results)
    /\ pl_pc' = "done"
    /\ UNCHANGED <<pl_via, pl_results, pl_i, pl_outputs, pl_written, pl_ret>>

PLNext ==
    \/ PLModelToObsidian
    \/ PLAssetStep
    \/ PLReturn

\* the pipeline is not in use
PLIdle ==
    /\ pl_via = "unused"
    /\ pl_results = <<>>
    /\ pl_i = 1
    /\ pl_pc = "unused"
    /\ pl_outputs = <<>>
    /\ pl_written = <<>>
    /\ pl_ret = <<>>

(***************************************************************************)
(* IMessageIngestor                                                        *)
(***************************************************************************)
MessageIds == 1..NumMessages

\* the chat a message belongs to: the last message is alone in its chat
ThreadOf(message_id) == IF message_id = NumMessages THEN "chat B" ELSE "chat A"

\* what _fetch_recent_messages can return: messages of the history, oldest first
Batches ==
    {b \in UNION {[1..n -> MessageIds] : n \in 1..NumMessages} :
        \A j, k \in 1..Len(b) : j < k => b[j] < b[k]}

SeqToSet(q) == {q[k] : k \in 1..Len(q)}

MIInit ==
    /\ mi_pc = "idle"
    /\ mi_batch = <<>>
    /\ mi_k = 1
    /\ mi_calls = 0
    /\ mi_processed = {}
    /\ mi_threads = {}
    /\ mi_catalog = {}
    /\ mi_pending = {}
    /\ mi_results = <<>>
    /\ mi_returned = {}

\* ingest() is entered: lines 100-120, with a fresh session
MIIngestBegin ==
    /\ UNCHANGED mi_others
    /\ mi_pc = "idle"
    /\ mi_calls < MaxIngests
    /\ mi_calls' = mi_calls + 1
    /\ mi_batch' \in Batches
    /\ mi_k' = 1
    /\ mi_pc' = "batch"
    /\ mi_pending' = {}
    /\ mi_results' = <<>>
    /\ UNCHANGED <<mi_processed, mi_threads, mi_catalog, mi_returned>>

\* one iteration of the loop of lines 121-158 that raises nothing
MIHandleMessage ==
    /\ UNCHANGED mi_others
    /\ mi_pc = "batch"
    /\ mi_k <= Len(mi_batch)
    /\ LET message_id == mi_batch[mi_k]
           thread == ThreadOf(message_id)
       IN IF message_id \in mi_processed
          THEN UNCHANGED <<mi_processed, mi_threads, mi_catalog, mi_pending, mi_results>>
          ELSE IF message_id \in mi_catalog
          THEN /\ mi_processed' = mi_processed \cup {message_id}
               /\ UNCHANGED <<mi_threads, mi_catalog, mi_pending, mi_results>>
          ELSE /\ IF thread \notin mi_threads
                  THEN \* lines 134-141: the commit stores what is pending too
                       /\ mi_threads' = mi_threads \cup {thread}
                       /\ mi_catalog' = mi_catalog \cup mi_pending
                       /\ mi_pending' = {message_id}
                  ELSE /\ mi_pending' = mi_pending \cup {message_id}
                       /\ UNCHANGED <<mi_threads, mi_catalog>>
               /\ mi_processed' = mi_processed \cup {message_id}
               /\ mi_results' = Append(mi_results, message_id)
    /\ mi_k' = mi_k + 1
    /\ UNCHANGED <<mi_pc, mi_batch, mi_calls, mi_returned>>

\* a query or a commit inside the loop, or the commit of line 160, raises:
\* the handlers of lines 164-169 return [] and the session is dropped
MIRaise ==
    /\ UNCHANGED mi_others
    /\ mi_pc = "batch"
    /\ mi_pc' = "idle"
    /\ mi_pending' = {}
    /\ mi_results' = <<>>
    /\ UNCHANGED <<mi_batch, mi_k, mi_calls, mi_processed, mi_threads, mi_catalog,
                   mi_returned>>

\* lines 160-162
MICommitReturn ==
    /\ UNCHANGED mi_others
    /\ mi_pc = "batch"
    /\ mi_k > Len(mi_batch)
    /\ mi_catalog' = mi_catalog \cup mi_pending
    /\ mi_pending' = {}
    /\ mi_returned' = mi_returned \cup SeqToSet(mi_results)
    /\ mi_pc' = "idle"
    /\ UNCHANGED <<mi_batch, mi_k, mi_calls, mi_processed, mi_threads, mi_results>>

MINext ==
    \/ MIIngestBegin
    \/ MIHandleMessage
    \/ MIRaise
    \/ MICommitReturn

\* the messaging source is not in use
MIIdle ==
    /\ mi_pc = "unused"
    /\ mi_batch = <<>>
    /\ mi_k = 1
    /\ mi_calls = 0
    /\ mi_processed = {}
    /\ mi_threads = {}
    /\ mi_catalog = {}
    /\ mi_pending = {}
    /\ mi_results = <<>>
    /\ mi_returned = {}

(***************************************************************************)
(* Specifications                                                          *)
(***************************************************************************)
InitMR ==
    /\ MRInit
    /\ PRIdle /\ IngestIdle /\ IMIdle /\ OBIdle
    /\ CLIIdle /\ PLIdle /\ MIIdle

InitProc ==
    /\ PRInit
    /\ MRIdle /\ IngestIdle /\ IMIdle /\ OBIdle
    /\ CLIIdle /\ PLIdle /\ MIIdle

InitIngest ==
    /\ RSSInit
    /\ MRIdle /\ PRIdle /\ IMIdle /\ OBIdle
    /\ CLIIdle /\ PLIdle /\ MIIdle

InitMsg ==
    /\ IMInit
    /\ MRIdle /\ PRIdle /\ IngestIdle /\ OBIdle
    /\ CLIIdle /\ PLIdle /\ MIIdle

InitVault ==
    /\ OBInit
    /\ MRIdle /\ PRIdle /\ IngestIdle /\ IMIdle
    /\ CLIIdle /\ PLIdle /\ MIIdle

InitCLI ==
    /\ CLIInit
    /\ MRIdle /\ PRIdle /\ IngestIdle /\ IMIdle
    /\ OBIdle /\ PLIdle /\ MIIdle

InitPipe ==
    /\ PLInit
    /\ MRIdle /\ PRIdle /\ IngestIdle /\ IMIdle
    /\ OBIdle /\ CLIIdle /\ MIIdle

InitMsgIn ==
    /\ MIInit
    /\ MRIdle /\ PRIdle /\ IngestIdle /\ IMIdle
    /\ OBIdle /\ CLIIdle /\ PLIdle

SpecMR == InitMR /\ [][MRNext]_vars
SpecProc == InitProc /\ [][PRNext]_vars
SpecIngest == InitIngest /\ [][IngestNext]_vars
SpecMsg == InitMsg /\ [][IMNext]_vars
SpecVault == InitVault /\ [][OBNext]_vars
SpecCLI == InitCLI /\ [][CLINext]_vars
SpecPipe == InitPipe /\ [][PLNext]_vars
SpecMsgIn == InitMsgIn /\ [][MINext]_vars

(***************************************************************************)
(* Claims about the fan-out processor (SpecMR)                             *)
(***************************************************************************)
EntriesOf(name) ==
    {k \in 1..Len(mr_results) : mr_results[k].data.metadata.processor = name}

InMessage(name, msg) == \E k \in 1..Len(msg) : msg[k] = name

\* C1: in parallel and in sequential mode, once process() has ended without
\* the overall timeout expiring, it has returned normally although children
\* raised, the result list holds exactly one entry per child, tagged with that
\* child's name, and the entry of every child whose process() raised is a
\* failure whose error message carries that child's name.
C1_RaiseIsolated ==
    (mr_phase = "done" /\ ~mr_timedOut) =>
        /\ mr_outcome = "returned"
        /\ Len(mr_results) = mr_cfg.n_processors
        /\ \A i \in Held :
              /\ Cardinality(EntriesOf(ProcNames[i])) = 1
              /\ mr_raised[i] =>
                    \A k \in EntriesOf(ProcNames[i]) :
                        /\ ~mr_results[k].success
                        /\ InMessage(ProcNames[i], mr_results[k].error_message)

\* C1 witness: a sequential run whose first child raised and whose later
\* children still ran and succeeded
C1_Witness ==
    /\ mr_phase = "done"
    /\ mr_outcome = "returned"
    /\ ~mr_cfg.parallel
    /\ mr_raised[1]
    /\ mr_cfg.n_processors = NumChildren
    /\ \A i \in Children \ {1} : \E k \in EntriesOf(ProcNames[i]) : mr_results[k].success

\* C2 (as claimed): when the timeout expired, process() returns an envelope
\* built from the children collected before it
C2_TimeoutKeepsCompleted ==
    (mr_phase = "done" /\ mr_timedOut) =>
        /\ mr_outcome = "returned"
        /\ mr_ret = track_metrics(
                        ProcessReturn(mr_input, mr_results, mr_cfg))

\* C10 (as claimed): process() always ends by returning an envelope, a failure
\* envelope when the fan-out timed out; no exception leaves it
C10_NoExceptionEscapes ==
    mr_phase = "done" =>
        /\ mr_outcome = "returned"
        /\ mr_ret # NoEnvelope

RECURSIVE SectionNames(_)
\* the names that follow the section headers of a combined document, in order
SectionNames(doc) ==
    IF Len(doc) < 2 THEN <<>>
    ELSE IF Head(doc) = "## " THEN <<doc[2]>> \o SectionNames(Tail(doc))
    ELSE SectionNames(Tail(doc))

AllSucceeded ==
    /\ mr_cfg.n_processors >= 1
    /\ Len(mr_results) = mr_cfg.n_processors
    /\ \A k \in 1..Len(mr_results) : mr_results[k].success

OneSectionPerChild ==
    LET names == SectionNames(mr_ret.data.content)
    IN /\ Len(names) = mr_cfg.n_processors
       /\ \A i \in Held :
             Cardinality({k \in 1..Len(names) : names[k] = ProcNames[i]}) = 1
       /\ names = [k \in 1..Len(mr_results) |-> mr_results[k].data.metadata.processor]
       /\ ~mr_cfg.parallel => names = [k \in Held |-> ProcNames[k]]

\* C12 (as claimed): with combine enabled and every child successful, the
\* combined document has exactly one section per child, headed by that
\* child's name, in the order the results were collected (list order in
\* sequential mode)
C12_OneSectionPerChild ==
    (mr_phase = "done" /\ mr_outcome = "returned" /\ mr_cfg.combine_results
        /\ AllSucceeded) => OneSectionPerChild

\* C12 (amended): the same, for output_format "markdown"
C12_OneSectionPerChildMarkdown ==
    (mr_phase = "done" /\ mr_outcome = "returned" /\ mr_cfg.combine_results
        /\ mr_cfg.output_format = "markdown" /\ AllSucceeded) =>
        /\ mr_ret.success
        /\ OneSectionPerChild

\* C12 witness: a parallel run in markdown format whose children all
\* succeeded and were collected in another order than the list's
C12_Witness ==
    /\ mr_phase = "done"
    /\ mr_outcome = "returned"
    /\ mr_cfg.parallel
    /\ mr_cfg.combine_results
    /\ mr_cfg.output_format = "markdown"
    /\ AllSucceeded
    /\ mr_cfg.n_processors = NumChildren
    /\ mr_results[1].data.metadata.processor # ProcNames[1]

\* C13 (as claimed): once the timeout has expired process() has ended, by
\* returning an envelope, although children are still queued or running: it
\* does not wait for them
C13_AbandonedNotAwaited ==
    /\ (mr_timedOut /\ \E i \in Held : mr_child[i] \in {"queued", "running"}) =>
          mr_phase = "done"
    /\ (mr_timedOut /\ mr_phase = "done") => mr_outcome = "returned"

\* C14: with combine disabled process() returns the first successful envelope
\* of the result list; the first envelope of the list when none succeeded;
\* and a failure envelope with a message when the list is empty
C14_FirstSuccessElseFirst ==
    (mr_phase = "done" /\ mr_outcome = "returned" /\ ~mr_cfg.combine_results) =>
        /\ \A k \in 1..Len(mr_results) :
              (mr_results[k].success /\ \A j \in 1..(k - 1) : ~mr_results[j].success)
                  => mr_ret = track_metrics(mr_results[k])
        /\ (mr_results # <<>> /\ \A k \in 1..Len(mr_results) : ~mr_results[k].success)
              => mr_ret = track_metrics(mr_results[1])
        /\ mr_results = <<>> =>
              (~mr_ret.success /\ mr_ret.error_message # NoError
                 /\ mr_ret.data.id = mr_input.id)

\* C14 witness: the first envelope of the list is a failure, the second a
\* success, and the second is what process() returned
C14_Witness ==
    /\ mr_phase = "done"
    /\ mr_outcome = "returned"
    /\ ~mr_cfg.combine_results
    /\ Len(mr_results) >= 2
    /\ ~mr_results[1].success
    /\ mr_results[2].success
    /\ mr_ret = track_metrics(mr_results[2])

\* C14 witness of the empty list: no children are held
C14_WitnessEmpty ==
    /\ mr_phase = "done"
    /\ mr_outcome = "returned"
    /\ ~mr_cfg.combine_results
    /\ mr_results = <<>>
    /\ ~mr_ret.success

(***************************************************************************)
(* Claims about failure envelopes and content-kind checks (SpecProc)       *)
(***************************************************************************)
\* C8 (as claimed): every failure envelope carries an error message and wraps
\* the record that was passed in: same id, content, metadata and content-kind
C8_FailureKeepsRecord ==
    (pr_pc = "done" /\ pr_out = "envelope" /\ ~pr_env.success) =>
        /\ pr_env.error_message # NoError
        /\ pr_env.data.id = pr_data.id
        /\ pr_env.data.content = pr_data.content
        /\ pr_env.data.metadata = pr_data.metadata
        /\ pr_env.data.content_type = pr_data.content_type

\* C9 (as claimed): a record whose content-kind the processor does not accept
\* yields a failure envelope with a message, whichever way it is presented,
\* and no completion request is sent for it
C9_MismatchFailsFast ==
    (pr_pc = "done" /\ ~can_process(pr_proc, pr_data)) =>
        /\ pr_calls = 0
        /\ pr_out = "envelope"
        /\ ~pr_env.success
        /\ pr_env.error_message # NoError

\* C11: with retry_count = N the completion request is sent at most N times;
\* after k failed attempts the delays slept are retry_delay*1 .. retry_delay*k
\* and none follows the last attempt; the failure envelope for exhausted
\* retries comes only after the N-th request; a success envelope ends the
\* loop at the attempt that succeeded; N = 0 sends nothing and ends in a
\* failure envelope
C11_RetryLinearBackoff ==
    /\ pr_pc = "attempt" =>
          /\ pr_calls = pr_attempt
          /\ pr_calls < pr_retry \/ pr_retry = 0
          /\ pr_sleeps = [k \in 1..pr_calls |-> k]
    /\ (pr_pc = "done" /\ (pr_via = "process" \/ can_process(pr_proc, pr_data))) =>
          /\ pr_out = "envelope"
          /\ pr_calls <= pr_retry
          /\ pr_sleeps = [k \in 1..(pr_calls - 1) |-> k]
          /\ pr_env.success => pr_calls >= 1
          /\ pr_env.error_message = <<"LLM error: ", "exhausted">> =>
                (pr_calls = pr_retry /\ pr_retry >= 1)
          /\ (~pr_env.success /\ pr_calls < pr_retry) =>
                pr_env.error_message \in {<<"Unexpected API response format">>,
                                          <<"LLM error: ", "bad_shape">>}
          /\ pr_retry = 0 => (pr_calls = 0 /\ ~pr_env.success
                                /\ pr_env.error_message # NoError)

\* C11 witness: the largest retry_count, every request failed, and the
\* failure envelope came after the last one
C11_Witness ==
    /\ pr_pc = "done"
    /\ pr_retry = MaxRetry
    /\ pr_calls = MaxRetry
    /\ Len(pr_sleeps) = MaxRetry - 1
    /\ ~pr_env.success
    /\ pr_env.error_message = <<"LLM error: ", "exhausted">>

\* C29: process() leaves the caller's record as it was, in both modes and
\* whatever the children return; every collected child's envelope wraps a
\* record object of its own, which carries that child's name as its tag
\* however many other envelopes were tagged since.
C29_RecordsNotShared ==
    /\ mr_heap["caller"] = mr_input
    /\ \A i \in Held :
          mr_child[i] = "collected" =>
              /\ mr_ref[i] \notin {"caller", "data_copy"}
              /\ mr_heap[mr_ref[i]].metadata.processor = ProcNames[i]
              /\ \A j \in Held :
                    (j # i /\ mr_child[j] = "collected") => mr_ref[j] # mr_ref[i]

\* C29 witness: a parallel run returned after tagging every child's envelope,
\* the second child's first
C29_Witness ==
    /\ mr_cfg.parallel
    /\ mr_cfg.n_processors = NumChildren
    /\ mr_outcome = "returned"
    /\ \A i \in Children : mr_child[i] = "collected"
    /\ mr_results[1].data.metadata.processor = ProcNames[2]
    /\ mr_heap["data_copy"] = mr_input

(***************************************************************************)
(* Claims about the RSS adapter and its catalog (SpecIngest)               *)
(***************************************************************************)
ArticlesOf(articles, f) ==
    LET Mine(a) == a.feed_id = f IN SelectSeq(articles, Mine)

\* C3 (as claimed): the list a call of ingest() returns holds each guid once
\* and holds no guid that an earlier call returned
C3_SurfacedOnce ==
    (in_pc = "idle" /\ in_outcome = "returned") =>
        /\ \A k \in 1..Len(in_results) : in_results[k] \notin in_surfaced
        /\ \A j, k \in 1..Len(in_results) : j # k => in_results[j] # in_results[k]

\* C4 (as claimed): a poll of a feed that presents only guids which earlier
\* polls had presented adds no article row and adds no record to the list
\* the call returns
C4_RepeatedKeysAddNothing ==
    [][(in_pc = "feeds" /\ in_fetched' # in_fetched /\ in_repeat') =>
          /\ rss_articles' = rss_articles
          /\ Len(in_results') <= Len(in_results)]_vars

\* C5 (as claimed): a feed whose fetch has failed on five consecutive polls is
\* muted with a reason, and no sixth fetch of it takes place
C5_FiveFetchErrorsMute ==
    \A f \in Feeds :
        /\ rss_fetchErrs[f] <= MuteThreshold
        /\ rss_fetchErrs[f] >= MuteThreshold =>
              /\ rss_feed[f].muted
              /\ rss_feed[f].muted_reason # <<>>

\* C6: once a feed is muted no step of any ingest() call changes its row
\* (muted, muted_reason, error_count, no_entries_count, last_checked,
\* article_count) or its articles, and no step fetches it
C6_MutingSticky ==
    [][\A f \in Feeds :
          rss_feed[f].muted =>
              /\ rss_feed'[f] = rss_feed[f]
              /\ ArticlesOf(rss_articles', f) = ArticlesOf(rss_articles, f)
              /\ (f \in in_fetched' => f \in in_fetched)
              /\ rss_fetchErrs'[f] = rss_fetchErrs[f]]_vars

\* C6 witness: a call later than the one that muted the first feed has gone
\* past it without fetching it and is at the second feed
C6_Witness ==
    /\ rss_feed["f1"].muted
    /\ in_pc = "feeds"
    /\ in_i = 2
    /\ "f1" \notin in_fetched
    /\ rss_feed["f1"].last_checked < in_calls

\* C7 (as claimed): once a feed has answered five consecutive polls with no
\* entries the warning about consecutive empty polls has been logged, and the
\* feed is not muted
C7_WarnAfterFifth ==
    \A f \in Feeds :
        rss_feed[f].no_entries_count >= EmptyWarnThreshold =>
            /\ rss_warnings[f] >= 1
            /\ ~rss_feed[f].muted

\* C7 (amended): a poll that yields zero entries never changes muted or
\* error_count, and it logs the warning about consecutive empty polls exactly
\* when it is the sixth or a later one in a row (no_entries_count > 5); the
\* fifth logs nothing
C7_WarnFromSixthNeverMute ==
    [][\A f \in Feeds :
          rss_feed'[f].no_entries_count = rss_feed[f].no_entries_count + 1 =>
              /\ rss_feed'[f].muted = rss_feed[f].muted
              /\ rss_feed'[f].error_count = rss_feed[f].error_count
              /\ rss_warnings'[f] =
                    IF rss_feed'[f].no_entries_count > EmptyWarnThreshold
                    THEN rss_warnings[f] + 1
                    ELSE rss_warnings[f]]_vars

\* C7 witness: the first feed has answered six polls in a row with no
\* entries, the one warning was logged, and it is not muted
C7_Witness ==
    /\ rss_feed["f1"].no_entries_count = EmptyWarnThreshold + 1
    /\ rss_warnings["f1"] = 1
    /\ ~rss_feed["f1"].muted

\* C18: within one ingest() call a failure while handling one feed never keeps
\* the feeds after it in the list from being polled: a call that has ended
\* has returned its results, and has polled every feed that is not muted.
C18_FailureNeverBlocksLaterFeeds ==
    (in_adapter = "rss" /\ in_pc = "idle" /\ in_calls >= 1) =>
        /\ in_outcome = "returned"
        /\ \A f \in Feeds : f \in in_fetched \/ rss_feed[f].muted

\* the step is a poll of feed f
PollStep(f) == f \notin in_fetched /\ f \in in_fetched'

\* the guids of the entries of a poll that carry an id and lie in the
\* lookback window
WantedGuids(input) ==
    {input.entries[k].guid : k \in {j \in 1..Len(input.entries) :
        input.entries[j].guid # "" /\ InLookback(input.entries[j])}}

RowsWithGuid(guid) == {k \in 1..Len(rss_articles) : rss_articles[k].guid = guid}

\* C22: a duplicate item key is a no-op: after a poll that was answered, met
\* no other error, and whose entry list held the same guid twice, exactly one
\* article row exists for that guid.
C22_DuplicateKeyIsNoOp ==
    LET input == in_polled.input
    IN (in_polled.feed \in Feeds /\ input.failed < FetchAttempts
            /\ input.raise_at = 0) =>
          \A j, k \in 1..Len(input.entries) :
              (j # k /\ input.entries[j] = input.entries[k]
                     /\ input.entries[j].guid \in WantedGuids(input)) =>
                  Cardinality(RowsWithGuid(input.entries[j].guid)) = 1

\* C26: error_count counts consecutive errors: a poll that completes without
\* raising, a zero-entry poll included, leaves it at zero.
C26_ErrorCountIsConsecutive ==
    [][\A f \in Feeds :
          (PollStep(f) /\ in_polled'.input.raise_at = 0
                       /\ in_outcome' # "raised") =>
              rss_feed'[f].error_count = 0]_vars

\* C27: a poll of entries that stores nothing new has nothing left to store:
\* repeated error-free polls of the same entries end with every in-window
\* entry that has a guid in the catalog.
C27_NoEntrySkippedForever ==
    [][\A f \in Feeds :
          (PollStep(f) /\ in_polled'.input.raise_at = 0
                       /\ in_polled'.input.failed = 0
                       /\ in_outcome' # "raised"
                       /\ rss_articles' = rss_articles) =>
              WantedGuids(in_polled'.input) \subseteq Guids(rss_articles')]_vars

\* C30: the feed's article_count is the number of article rows of the feed.
C30_ArticleCountMatchesRows ==
    \A f \in Feeds : rss_feed[f].article_count = Len(ArticlesOf(rss_articles, f))

(***************************************************************************)
(* Claims about the messaging sink (SpecMsg)                               *)
(***************************************************************************)
RECURSIVE Concat(_)
Concat(seqs) == IF seqs = <<>> THEN <<>> ELSE Head(seqs) \o Concat(Tail(seqs))

\* the k-th _send_imessage call of a call that sends every chunk, in chunk
\* order, to every recipient
ExpectedSend(k) ==
    [to |-> recipients[((k - 1) % NumRecipients) + 1],
     text |-> SentText(im_chunks, ((k - 1) \div NumRecipients) + 1)]

\* C15 (as claimed): when the formatted message is longer than max_length and
\* splitting is enabled, output() has sent more than one chunk, every text
\* sent is at most max_length long, and the chunks joined in order are the
\* formatted message
C15_ChunksFitAndReassemble ==
    (im_pc = "done" /\ im_cfg.split_long_messages
        /\ Len(im_message) > im_cfg.max_length) =>
        /\ Len(im_chunks) > 1
        /\ \A k \in 1..Len(im_sent) : Len(im_sent[k].text) <= im_cfg.max_length
        /\ Concat(im_chunks) = im_message

\* C16: the sends made so far are those of every chunk in chunk order, each
\* to every recipient in list order, whatever the earlier sends returned; a
\* call that returns has made them all, and returns TRUE exactly when none of
\* them returned False
C16_EveryChunkEveryRecipient ==
    /\ \A k \in 1..Len(im_sent) : im_sent[k] = ExpectedSend(k)
    /\ im_pc = "done" =>
          /\ Len(im_sent) = Len(im_chunks) * NumRecipients
          /\ im_ret = ~im_anyFailed

\* C16 witness: a call that sent several chunks returned FALSE, and its last
\* send, made after the failed one, succeeded
C16_Witness ==
    /\ im_pc = "done"
    /\ Len(im_chunks) >= 2
    /\ Len(im_sent) = Len(im_chunks) * NumRecipients
    /\ im_anyFailed
    /\ im_lastOk
    /\ im_ret = FALSE

\* C23: with truncate_long_messages on, the message _format_message produces
\* for content longer than max_length is at most max_length long.
C23_TruncatedFits ==
    (im_pc \in {"split", "send", "done"} /\ im_cfg.truncate_long_messages
        /\ Len(im_content) > im_cfg.max_length) =>
        Len(im_message) <= im_cfg.max_length

\* C24: every iteration of the splitting loop strictly shortens the remaining
\* text and appends a non-empty chunk, so the loop terminates.
C24_SplitLoopProgress ==
    [][(im_pc = "split" /\ im_chunks' # im_chunks) =>
          /\ Len(im_remaining') < Len(im_remaining)
          /\ im_chunks'[Len(im_chunks')] # <<>>]_vars

(***************************************************************************)
(* Claims about the vault sink (SpecVault)                                 *)
(***************************************************************************)
\* the step is a call of output() that returned True for a target that existed
WroteToExisting ==
    /\ ob_calls' = ob_calls + 1
    /\ ob_ret' = TRUE
    /\ ob_files[ob_last'.file_path] # NoFile

\* C17: a successful write to a target that exists applies exactly one policy,
\* the first that is set of append, prepend, overwrite, and with none set
\* creates a new file <stem>_<timestamp>.md holding the content; nothing
\* else in the vault changes, so under the default policy the original is
\* untouched.
C17_OnePolicyNewSibling ==
    [][WroteToExisting =>
          LET target == ob_last'.file_path
              content == ob_last'.content
              new_path == SiblingPath(ob_last'.title, ob_clock)
          IN IF ob_cfg.append
             THEN ob_files' = [ob_files EXCEPT ![target] = @ \o <<"\n\n">> \o content]
             ELSE IF ob_cfg.prepend
             THEN ob_files' = [ob_files EXCEPT ![target] = content \o <<"\n\n">> \o @]
             ELSE IF ob_cfg.overwrite
             THEN ob_files' = [ob_files EXCEPT ![target] = content]
             ELSE /\ ob_files[new_path] = NoFile
                  /\ ob_files' = [ob_files EXCEPT ![new_path] = content]]_vars

\* C28: under the default policy (append, prepend and overwrite all false) no
\* call of output() modifies or replaces a file that existed before the call.
C28_DefaultPolicyKeepsExistingFiles ==
    [][(~ob_cfg.append /\ ~ob_cfg.prepend /\ ~ob_cfg.overwrite) =>
          \A n \in VaultNames :
              ob_files[n] # NoFile => ob_files'[n] = ob_files[n]]_vars

(***************************************************************************)
(* Claims about the command line (SpecCLI)                                 *)
(***************************************************************************)
WhiteSpace == {" ", "\n"}

WhiteSpaceOnly(s) == \A k \in 1..Len(s) : s[k] \in WhiteSpace

\* c is raw without the white space at its two ends
IsTrimOf(c, raw) ==
    \E i, j \in 0..Len(raw) :
        /\ i + j <= Len(raw)
        /\ WhiteSpaceOnly(SubSeq(raw, 1, i))
        /\ WhiteSpaceOnly(SubSeq(raw, Len(raw) - j + 1, Len(raw)))
        /\ c = SubSeq(raw, i + 1, Len(raw) - j)
        /\ c = <<>> \/ (c[1] \notin WhiteSpace /\ c[Len(c)] \notin WhiteSpace)

\* the process subcommand was invoked with nothing piped, or with white space only
NoInputGiven ==
    /\ cli_via = "main"
    /\ cli_command = "process"
    /\ cli_stdin.isatty \/ WhiteSpaceOnly(cli_stdin.text)

\* C19: the process subcommand with no piped input, or input that is empty
\* after trimming, prints a warning to standard error and exits with a
\* non-zero status, and the processor's process() is never called.
C19_NoInputWarnsAndExits ==
    NoInputGiven =>
        /\ cli_processed = <<>>
        /\ cli_pc # "ingested"
        /\ cli_pc = "done" =>
              /\ cli_stderr = <<"No input provided">>
              /\ cli_stdout = <<>>
              /\ cli_exit # 0

C19_Witness ==
    /\ NoInputGiven
    /\ ~cli_stdin.isatty
    /\ cli_stdin.text # <<>>
    /\ cli_pc = "done"
    /\ cli_exit = 1

\* the record ingest() returned is the adapter's, with the given content
OneRecordOf(content) ==
    /\ Len(cli_ret) = 1
    /\ cli_ret[1].content = content
    /\ cli_ret[1].content_type = cli_adapter.content_type
    /\ cli_ret[1].source = cli_adapter.source_name
    /\ cli_ret[1].metadata.size = Len(content)

\* C20 as stated: ingest() returns an empty list when stdin is a terminal or
\* the trimmed piped text is empty, and otherwise exactly one record whose
\* content is the (trimmed) piped text, whose content kind and source are the
\* adapter's and whose metadata size is the length of the content.
C20_OneRecordOfPipedText ==
    (cli_via = "ingest" /\ cli_pc = "done") =>
        IF cli_stdin.isatty \/ WhiteSpaceOnly(cli_stdin.text)
        THEN cli_ret = <<>>
        ELSE \E content \in StdinTexts :
                /\ IsTrimOf(content, cli_stdin.text)
                /\ OneRecordOf(content)

\* C20, amended: the content is what the adapter's configuration makes of the
\* piped text: cut to max_size characters when max_size is set, and trimmed
\* only when trim_whitespace is on.  The list is empty when stdin is a
\* terminal or that content is empty.
C20_OneRecordOfContentRead ==
    (cli_via = "ingest" /\ cli_pc = "done") =>
        \E content \in StdinTexts :
            LET text == cli_stdin.text
                raw == IF cli_adapter.max_size = ReadAll \/ cli_adapter.max_size >= Len(text)
                       THEN text
                       ELSE SubSeq(text, 1, cli_adapter.max_size)
            IN /\ IF cli_adapter.trim_whitespace
                  THEN IsTrimOf(content, raw)
                  ELSE content = raw
               /\ IF cli_stdin.isatty \/ content = <<>>
                  THEN cli_ret = <<>>
                  ELSE OneRecordOf(content)

C20_Witness ==
    /\ cli_via = "ingest"
    /\ cli_pc = "done"
    /\ ~cli_stdin.isatty
    /\ cli_adapter.trim_whitespace
    /\ cli_adapter.max_size # ReadAll
    /\ cli_adapter.max_size < Len(cli_stdin.text)
    /\ cli_adapter.source_name = "custom_source"
    /\ Len(cli_ret) = 1
    /\ Len(cli_ret[1].content) < cli_adapter.max_size

(***************************************************************************)
(* Claims about the wired pipeline (SpecPipe)                              *)
(***************************************************************************)
\* C21: only successful result envelopes reach a sink: output() is never
\* invoked on an envelope with success = FALSE and nothing is written for it.
C21_OnlySuccessReachesSink ==
    /\ \A k \in 1..Len(pl_outputs) : pl_outputs[k].success
    /\ \A k \in 1..Len(pl_written) : pl_written[k].success

(***************************************************************************)
(* Claims about the messaging source (SpecMsgIn)                           *)
(***************************************************************************)
\* C25: between calls, every message id in processed_message_ids is stored
\* in the catalog or was in the list some ingest() call returned.
C25_SeenIsStoredOrSurfaced ==
    mi_pc = "idle" =>
        \A id \in mi_processed : id \in mi_catalog \/ id \in mi_returned

====
